---- MODULE Spec2Model ----
(***************************************************************************)
(* Model of the Google Skills profile scraper (batch_from_csv.py,          *)
(* scraper.py, update_single.py).                                          *)
(*                                                                         *)
(* Python values are modelled as follows.                                  *)
(*   dict   -> a TLA+ record; `k in d` is  k \in DOMAIN d                  *)
(*   list   -> a sequence                                                  *)
(*   str    -> a TLA+ string (opaque texts) or a sequence of tokens        *)
(*             (texts whose characters the code inspects)                  *)
(* A profile URL of the batch is an integer; the order of the integers is  *)
(* the order sorted() gives the URLs.                                      *)
(***************************************************************************)
EXTENDS Integers, Sequences, FiniteSets, TLC

VARIABLES
    prog,       \* which of the programs held by batch_from_csv.py is running
    argv,       \* the arguments the script was started with
    urls,       \* main: the list returned by extract_urls_from_csv
    workers,    \* main: args.workers
    pc,         \* main: position of the main thread
    queue,      \* ThreadPoolExecutor: submitted work items not yet taken
    fut,        \* futures: URL -> "none" | "pending" | "running" | "finished"
    sched,      \* URL -> number of ex.submit calls made for it
    scr,        \* URL -> the state of the scrape call made for it
    wkUrl,      \* pool thread -> the URL it is scraping, 0 when idle
    results,    \* main: the accumulated `results` list
    outFile,    \* content of results_from_gform.json
    yielded,    \* URLs whose future as_completed has yielded
    outBefore,  \* its content when the running main was called
    writes,     \* number of times the file has been opened for writing
    writesBefore, \* that number when the running main was called
    fn,         \* single scrape: the function called
    doc,        \* single scrape: the matching elements of the loaded page
    store,      \* update_single: content of data/results.json
    storeBefore,\* update_single: its content before the last update_profile
    upd,        \* update_single: the last update_profile call
    csv,        \* URL extraction: the file gform.csv
    variant,    \* URL extraction: which extract_urls_from_csv is run
    extracted   \* URL extraction: the list returned

batchVars == <<prog, argv, urls, workers, pc, queue, fut, sched, wkUrl,
               results, yielded,
               outFile, outBefore, writes, writesBefore>>
scrapeVars == <<fn, doc>>
updateVars == <<store, storeBefore, upd>>
extractVars == <<csv, variant, extracted>>

vars == <<batchVars, scr, scrapeVars, updateVars, extractVars>>

(***************************************************************************)
(* Bounds of the model.                                                    *)
(***************************************************************************)
MaxUrls == 2
MaxWorkers == 2
MaxPrev == 1

\* default of --workers (line 117)
DefaultWorkers == 5

URLS == 1..MaxUrls
\* the pool threads a run can have
Threads ==
    1..(IF MaxWorkers > DefaultWorkers THEN MaxWorkers ELSE DefaultWorkers)

\* The exceptions a failing step raises: whether the exception is an instance
\* of Exception (asyncio.CancelledError, KeyboardInterrupt, SystemExit and
\* GeneratorExit derive from BaseException only) and its str(). Python gives
\* '' for an exception constructed without arguments (NotImplementedError()
\* raised by asyncio when the driver subprocess cannot be started,
\* asyncio.TimeoutError(), asyncio.CancelledError()).
Exceptions ==
    { [isException |-> TRUE, msg |-> ""],
      [isException |-> TRUE, msg |-> "Timeout 180000ms exceeded."],
      [isException |-> FALSE, msg |-> ""] }

\* What page.evaluate(js) returns in scrape_profile_with_name: {name, titles}.
PageResults ==
    { [name |-> "Jane Doe", titles |-> <<"Badge A", "Badge B", "Badge A">>],
      [name |-> "", titles |-> <<>>] }

\* What the loop of scraper.py:69-73 leaves in `results` in scrape_playwright.
PageTitles == { <<"Badge A", "Badge A">>, <<>> }

(***************************************************************************)
(* Helpers.                                                                *)
(***************************************************************************)
Range(s) == {s[i] : i \in DOMAIN s}

Min(S) == CHOOSE x \in S : \A y \in S : x <= y

RECURSIVE sorted(_)
\* sorted(urls) of a set of URLs (batch_from_csv.py:48)
sorted(S) == IF S = {} THEN <<>> ELSE <<Min(S)>> \o sorted(S \ {Min(S)})

RECURSIVE Dedup(_)
\* the seen/dedup loop: keeps the first occurrence of every text, in order
Dedup(ts) ==
    IF ts = <<>> THEN <<>>
    ELSE LET init == Dedup(SubSeq(ts, 1, Len(ts) - 1))
             t    == ts[Len(ts)]
         IN  IF t \in Range(init) THEN init ELSE Append(init, t)

(***************************************************************************)
(* One scrape call.  pos is the position in the function body:             *)
(*   "new"       not called yet                                            *)
(*   "try"       entered, before `with sync_playwright() as p`             *)
(*   "with"      inside the with block, before p.chromium.launch           *)
(*   "launched"  browser launched, before browser.new_page                 *)
(*   "page"      page created, before page.goto                            *)
(*   "loaded"    navigation done, before page.evaluate                     *)
(*   "evaluated" evaluate returned, before browser.close                   *)
(*   "closed"    browser.close returned, before the return statement       *)
(*   "returned"  the call returned ret                                     *)
(*   "raised"    the call raised the exception exc                         *)
(* pw is whether the Playwright driver started by the with block runs,     *)
(* browser is "none" | "open" | "closed" (browser.close) | "killed" (the   *)
(* driver was stopped with the browser still open, which terminates it).   *)
(***************************************************************************)
NoValue == [none |-> TRUE]

NewScrape == [pos |-> "new", pw |-> FALSE, browser |-> "none",
              raw |-> NoValue, ret |-> NoValue, exc |-> NoValue]

FailPositions == {"try", "with", "launched", "page", "loaded", "evaluated"}

Call(s) == [s EXCEPT !.pos = "try"]

EnterWith(s) == [s EXCEPT !.pos = "with", !.pw = TRUE]

Launch(s) == [s EXCEPT !.pos = "launched", !.browser = "open"]

NewPage(s) == [s EXCEPT !.pos = "page"]

Goto(s) == [s EXCEPT !.pos = "loaded"]

Evaluate(s, r) == [s EXCEPT !.pos = "evaluated", !.raw = r]

BrowserClose(s) == [s EXCEPT !.pos = "closed", !.browser = "closed"]

\* Mutant of ExitWith: the driver is left running and the browser open, as
\* when the driver is started with sync_playwright().start() and never stopped.
ExitWithLeak(s) == s

\* __exit__ of `with sync_playwright() as p`: stops the driver; a browser the
\* driver launched and that is still open is terminated with it.
ExitWith(s) ==
    [s EXCEPT !.pw = FALSE,
              !.browser = IF @ = "open" THEN "killed" ELSE @]

\* return {'name': result.get('name', ''), 'titles': dedup}, leaving the with
ReturnResult(s) ==
    [ExitWith(s) EXCEPT !.pos = "returned", !.raw = NoValue,
        !.ret = [name |-> s.raw.name, titles |-> Dedup(s.raw.titles)]]

\* a step raises an exception whose str() is m: the with block is left and
\* `except Exception as e: return {'error': str(e)}` runs
ReturnError(s, m) ==
    [(IF s.pw THEN ExitWith(s) ELSE s) EXCEPT
        !.pos = "returned", !.raw = NoValue, !.ret = [error |-> m]]

\* a step raises e, which is no Exception: the with block is left, the except
\* clause of line 112 does not match and the call raises e
RaiseUncaught(s, e) ==
    [(IF s.pw THEN ExitWith(s) ELSE s) EXCEPT
        !.pos = "raised", !.raw = NoValue, !.exc = e]

\* lines 53-113: what a step raising e makes of the call
OnException(s, e) ==
    IF e.isException THEN ReturnError(s, e.msg) ELSE RaiseUncaught(s, e)

\* scraper.py:74-76, leaving the with block, return results
ReturnTitles(s) ==
    [ExitWith(s) EXCEPT !.pos = "returned", !.raw = NoValue, !.ret = s.raw]

\* scrape_playwright: a step raises the exception e; the finally clause closes
\* the browser when page.evaluate or the loop raised, the with block is left
\* and the exception propagates to the caller
Raise(s, e) ==
    LET s1 == IF s.pos = "loaded" THEN [s EXCEPT !.browser = "closed"] ELSE s
    IN  [(IF s.pw THEN ExitWith(s1) ELSE s1) EXCEPT
            !.pos = "raised", !.raw = NoValue, !.exc = e]

(***************************************************************************)
(* batch_from_csv.py run as a script.  The file holds three programs one   *)
(* after the other, each defining extract_urls_from_csv and main and       *)
(* ending in `if __name__ == '__main__': main()`:                          *)
(*   prog 1  lines 1-163    main of lines 116-159, a thread pool calling   *)
(*                          scrape_profile_with_name, writes a JSON array  *)
(*   prog 2  lines 164-218  main of lines 191-214, one scrape_playwright   *)
(*                          call after the other, writes a JSON object     *)
(*   prog 3  lines 219-273  main of lines 256-269, likewise                *)
(* The script starts with prog 1; when a main returns, the script goes on  *)
(* to the next one.  All three write results_from_gform.json (the default  *)
(* of --out in prog 1, which the runs modelled leave alone).               *)
(* argv is sys.argv[1:]: empty, or -w and a number.  prog 1 reads it with  *)
(* argparse, prog 2 takes its first element as the path of the CSV file,   *)
(* prog 3 does not read it.  progs 1 and 3 read gform.csv.                 *)
(* A JSON file is [json, items]: for an array, items are its entries; for  *)
(* an object, items are its members in insertion order, the member         *)
(* url: [t, ..] given as [key, titles] and url: {"error": m} as            *)
(* [key, error].                                                           *)
(***************************************************************************)
Progs == 1..3

JsonArray(items) == [json |-> "array", items |-> items]

JsonObject(items) == [json |-> "object", items |-> items]

\* the URL an entry of an array or a member of an object is about
KeyOf(item) == IF "url" \in DOMAIN item THEN item.url ELSE item.key

\* lines 142-151
EntryOf(url, res) ==
    IF "error" \in DOMAIN res
    THEN [url |-> url, error |-> res.error, name |-> "", titles |-> <<>>]
    ELSE [url |-> url, name |-> res.name, titles |-> res.titles]

\* fut.result() re-raises what the call raised; `except Exception` does not
\* catch it when it is no Exception
ResultRaises(s) == s.pos = "raised" /\ ~s.exc.isException

\* lines 137-140: res of fut.result() inside try/except Exception
FutureResult(s) ==
    IF s.pos = "raised" THEN [error |-> s.exc.msg] ELSE s.ret

Accumulate(rs, entry) == Append(rs, entry)

\* results[url] = value
DictSet(d, member) ==
    IF \E i \in DOMAIN d : d[i].key = member.key
    THEN [i \in DOMAIN d |-> IF d[i].key = member.key THEN member ELSE d[i]]
    ELSE Append(d, member)

\* lines 202-206 and 260-264: the member stored for a scrape_playwright call
MemberOf(url, s) ==
    IF s.pos = "raised" THEN [key |-> url, error |-> s.exc.msg]
    ELSE [key |-> url, titles |-> s.ret]

\* Mutant of PoolThreads: the pool ignores max_workers.
PoolThreadsUnbounded(n) == Threads

\* the threads ThreadPoolExecutor(max_workers=n) may start
PoolThreads(n) == 1..n

\* Mutant of LoopDone: the loop is left after the first URL.
LoopDoneEarly == yielded # {}

\* the for loop over the futures (prog 1) or the URLs (prog 2, 3) is exhausted
LoopDone == \A u \in Range(urls) : u \in yielded

InFlight == {u \in URLS : fut[u] = "running"}

Active == {u \in URLS : scr[u].pos \notin {"new", "returned", "raised"}}

PrevEntry(u) == [url |-> u, name |-> "Old Name", titles |-> <<"Old Badge">>]

\* files an earlier run over another gform.csv can have left
PrevFiles ==
    { JsonArray([i \in 1..Len(q) |-> PrevEntry(q[i])]) :
        q \in UNION { [1..n -> URLS] : n \in 0..MaxPrev } }

\* the lists extract_urls_from_csv can return from gform.csv: distinct URLs,
\* sorted in progs 1 and 2, in order of first appearance in prog 3.  prog 3
\* runs after prog 1 found a URL in a cell of the same file, and every such
\* cell holds /public_profiles/, so that the list of prog 3 is not empty
\* (SameFileGivesProg3Urls).
UrlLists(p) ==
    IF p = 3
    THEN { q \in UNION { [1..n -> URLS] : n \in 1..MaxUrls } :
             \A i, j \in DOMAIN q : q[i] = q[j] => i = j }
    ELSE { sorted(S) : S \in SUBSET URLS }

\* lines 117-119: args.workers of parser.parse_args()
ParseWorkers(av) == IF av = <<>> THEN DefaultWorkers ELSE av[2]

\* what is left of a call once its caller has stored what it returned or
\* raised: the fact that it ended
CallEnded(s) == [NewScrape EXCEPT !.pos = s.pos]

otherVars == <<argv, scrapeVars, updateVars, extractVars>>

\* the parts of the state a run of one program does not use
IdleScrape == fn = "none" /\ doc = NoValue
IdleUpdate == store = NoValue /\ storeBefore = NoValue /\ upd = NoValue
IdleExtract == csv = NoValue /\ variant = 0 /\ extracted = NoValue
IdleBatch ==
    /\ prog = 0 /\ argv = <<>> /\ urls = <<>> /\ workers = 0 /\ queue = <<>>
    /\ fut = [u \in URLS |-> "none"] /\ sched = [u \in URLS |-> 0]
    /\ wkUrl = [w \in Threads |-> 0] /\ results = <<>> /\ yielded = {}
    /\ outFile = JsonArray(<<>>) /\ outBefore = outFile
    /\ writes = 0 /\ writesBefore = 0

\* python batch_from_csv.py [-w n]: the script starts with prog 1, whose
\* main parses the arguments
Init ==
    /\ prog = 1
    /\ argv \in {<<>>} \cup { <<"-w", n>> : n \in 0..MaxWorkers }
    /\ urls = <<>>
    /\ workers = ParseWorkers(argv)
    /\ outFile \in { f \in PrevFiles :
                       \A i, j \in DOMAIN f.items :
                           f.items[i].url = f.items[j].url => i = j }
    /\ outBefore = outFile
    /\ pc = "start"
    /\ queue = <<>>
    /\ fut = [u \in URLS |-> "none"]
    /\ sched = [u \in URLS |-> 0]
    /\ scr = [u \in URLS |-> NewScrape]
    /\ wkUrl = [w \in Threads |-> 0]
    /\ results = <<>>
    /\ yielded = {}
    /\ writes = 0
    /\ writesBefore = 0
    /\ IdleScrape /\ IdleUpdate /\ IdleExtract

\* lines 122, 192, 257: urls = extract_urls_from_csv(..) of gform.csv, which
\* is the file prog 2 reads when the script was given no argument
ExtractUrls ==
    /\ pc = "start"
    /\ prog = 2 => argv = <<>>
    /\ urls' \in UrlLists(prog)
    /\ pc' = "extracted"
    /\ UNCHANGED <<prog, workers, queue, fut, sched, scr, wkUrl, results,
                   yielded, outFile, outBefore, writes, writesBefore>>
    /\ UNCHANGED otherVars

\* lines 192, 183: prog 2 takes sys.argv[1], the flag given to prog 1, as the
\* path of the CSV file and opens it without looking whether it exists;
\* FileNotFoundError ends the script
ExtractRaises ==
    /\ pc = "start" /\ prog = 2 /\ argv # <<>>
    /\ pc' = "crashed"
    /\ UNCHANGED <<prog, urls, workers, queue, fut, sched, scr, wkUrl,
                   results, yielded, outFile, outBefore, writes, writesBefore>>
    /\ UNCHANGED otherVars

\* lines 123-126: no URLs, sys.exit(1)
ExitNoUrls ==
    /\ prog = 1 /\ pc = "extracted" /\ urls = <<>>
    /\ pc' = "exit1"
    /\ UNCHANGED <<prog, urls, workers, queue, fut, sched, scr, wkUrl,
                   results, yielded, outFile, outBefore, writes, writesBefore>>
    /\ UNCHANGED otherVars

\* line 133 with max_workers <= 0: ThreadPoolExecutor raises ValueError
PoolValueError ==
    /\ prog = 1 /\ pc = "extracted" /\ urls # <<>> /\ workers <= 0
    /\ pc' = "crashed"
    /\ UNCHANGED <<prog, urls, workers, queue, fut, sched, scr, wkUrl,
                   results, yielded, outFile, outBefore, writes, writesBefore>>
    /\ UNCHANGED otherVars

\* line 133
PoolOpen ==
    /\ prog = 1 /\ pc = "extracted" /\ urls # <<>> /\ workers > 0
    /\ pc' = "submit"
    /\ UNCHANGED <<prog, urls, workers, queue, fut, sched, scr, wkUrl,
                   results, yielded, outFile, outBefore, writes, writesBefore>>
    /\ UNCHANGED otherVars

\* line 134: one ex.submit per element of urls, in order
Submit ==
    /\ pc = "submit"
    /\ LET i == Cardinality({u \in URLS : sched[u] > 0}) + 1
       IN  IF i <= Len(urls)
           THEN /\ queue' = Append(queue, urls[i])
                /\ fut' = [fut EXCEPT ![urls[i]] = "pending"]
                /\ sched' = [sched EXCEPT ![urls[i]] = @ + 1]
                /\ pc' = pc
           ELSE /\ pc' = "collect"
                /\ UNCHANGED <<queue, fut, sched>>
    /\ UNCHANGED <<prog, urls, workers, scr, wkUrl, results, yielded,
                   outFile, outBefore, writes, writesBefore>>
    /\ UNCHANGED otherVars

\* a pool thread takes the next work item and calls scrape_profile_with_name
\* (which idle thread takes the item does not matter to the program: the
\* lowest-numbered idle one does)
WorkerTake(w) ==
    /\ w \in PoolThreads(workers)
    /\ wkUrl[w] = 0 /\ queue # <<>>
    /\ \A v \in PoolThreads(workers) : wkUrl[v] = 0 => w <= v
    /\ wkUrl' = [wkUrl EXCEPT ![w] = Head(queue)]
    /\ queue' = Tail(queue)
    /\ fut' = [fut EXCEPT ![Head(queue)] = "running"]
    /\ scr' = [scr EXCEPT ![Head(queue)] = Call(@)]
    /\ UNCHANGED <<prog, urls, workers, pc, sched, results, yielded, outFile,
                   outBefore, writes, writesBefore>>
    /\ UNCHANGED otherVars

WorkerStep(w, from, next) ==
    /\ wkUrl[w] # 0
    /\ scr[wkUrl[w]].pos = from
    /\ scr' = [scr EXCEPT ![wkUrl[w]] = next]
    /\ UNCHANGED <<prog, urls, workers, pc, queue, fut, sched, wkUrl,
                   results, yielded, outFile, outBefore, writes, writesBefore>>
    /\ UNCHANGED otherVars

\* the call returns or raises: the work item sets the future's result or
\* exception, the thread is free
WorkerDone(w, next) ==
    /\ scr' = [scr EXCEPT ![wkUrl[w]] = next]
    /\ fut' = [fut EXCEPT ![wkUrl[w]] = "finished"]
    /\ wkUrl' = [wkUrl EXCEPT ![w] = 0]
    /\ UNCHANGED <<prog, urls, workers, pc, queue, sched, results, yielded,
                   outFile, outBefore, writes, writesBefore>>
    /\ UNCHANGED otherVars

WEnterWith(w) == WorkerStep(w, "try", EnterWith(scr[wkUrl[w]]))
WLaunch(w) == WorkerStep(w, "with", Launch(scr[wkUrl[w]]))
WNewPage(w) == WorkerStep(w, "launched", NewPage(scr[wkUrl[w]]))
WGoto(w) == WorkerStep(w, "page", Goto(scr[wkUrl[w]]))
WEvaluate(w) ==
    \E r \in PageResults : WorkerStep(w, "loaded", Evaluate(scr[wkUrl[w]], r))
WClose(w) == WorkerStep(w, "evaluated", BrowserClose(scr[wkUrl[w]]))

WReturn(w) ==
    /\ wkUrl[w] # 0 /\ scr[wkUrl[w]].pos = "closed"
    /\ WorkerDone(w, ReturnResult(scr[wkUrl[w]]))

\* a step of the call raises e
WFail(w) ==
    /\ wkUrl[w] # 0 /\ scr[wkUrl[w]].pos \in FailPositions
    /\ \E e \in Exceptions : WorkerDone(w, OnException(scr[wkUrl[w]], e))

\* lines 135-153: one iteration of the as_completed loop
Collect ==
    /\ pc = "collect"
    /\ \E u \in Range(urls) :
         /\ fut[u] = "finished" /\ u \notin yielded
         /\ ~ResultRaises(scr[u])
         /\ yielded' = yielded \cup {u}
         /\ results' = Accumulate(results, EntryOf(u, FutureResult(scr[u])))
    /\ UNCHANGED <<prog, urls, workers, pc, queue, fut, sched, scr, wkUrl,
                   outFile, outBefore, writes, writesBefore>>
    /\ UNCHANGED otherVars

\* lines 137-139: fut.result() raises what `except Exception` does not catch;
\* the exception leaves the loop and reaches the executor's with block
CollectRaises ==
    /\ pc = "collect"
    /\ \E u \in Range(urls) :
         /\ fut[u] = "finished" /\ u \notin yielded
         /\ ResultRaises(scr[u])
         /\ yielded' = yielded \cup {u}
    /\ pc' = "unwinding"
    /\ UNCHANGED <<prog, urls, workers, queue, fut, sched, scr, wkUrl,
                   results, outFile, outBefore, writes, writesBefore>>
    /\ UNCHANGED otherVars

\* line 133, __exit__ on an exception: shutdown(wait=True) returns when the
\* pool threads have run every submitted item; main ends with the exception
PoolShutdownRaises ==
    /\ pc = "unwinding"
    /\ queue = <<>> /\ \A w \in Threads : wkUrl[w] = 0
    /\ pc' = "aborted"
    /\ UNCHANGED <<prog, urls, workers, queue, fut, sched, scr, wkUrl,
                   results, yielded, outFile, outBefore, writes, writesBefore>>
    /\ UNCHANGED otherVars

\* lines 155-157: the loop and the executor's with block are left, the file
\* is opened with 'w' and results dumped into it
WriteOut ==
    /\ pc = "collect" /\ LoopDone
    /\ outFile' = JsonArray(results)
    /\ writes' = writes + 1
    /\ pc' = "done"
    /\ UNCHANGED <<prog, urls, workers, queue, fut, sched, scr, wkUrl,
                   results, yielded, outBefore, writesBefore>>
    /\ UNCHANGED otherVars

\* lines 193-195: prog 2 returns without writing when no URL was found
ReturnNoUrls ==
    /\ prog = 2 /\ pc = "extracted" /\ urls = <<>>
    /\ pc' = "returned"
    /\ UNCHANGED <<prog, urls, workers, queue, fut, sched, scr, wkUrl,
                   results, yielded, outFile, outBefore, writes, writesBefore>>
    /\ UNCHANGED otherVars

\* lines 197, 258: results = {}; prog 3 does not look whether the list is empty
SeqBegin ==
    /\ pc = "extracted"
    /\ prog = 3 \/ (prog = 2 /\ urls # <<>>)
    /\ results' = <<>>
    /\ pc' = "loop"
    /\ UNCHANGED <<prog, urls, workers, queue, fut, sched, scr, wkUrl,
                   yielded, outFile, outBefore, writes, writesBefore>>
    /\ UNCHANGED otherVars

\* the URL of the current iteration of the for loop, 0 after the last one
SeqUrl ==
    IF Cardinality(yielded) < Len(urls)
    THEN urls[Cardinality(yielded) + 1] ELSE 0

\* the states in which a call of scrape_playwright can end: after every step
\* of scraper.py:35-76 it returned, or a step raised
PlaywrightPath(ts) ==
    [try |-> Call(NewScrape),
     with |-> EnterWith(Call(NewScrape)),
     launched |-> Launch(EnterWith(Call(NewScrape))),
     page |-> NewPage(Launch(EnterWith(Call(NewScrape)))),
     loaded |-> Goto(NewPage(Launch(EnterWith(Call(NewScrape))))),
     evaluated |-> Evaluate(Goto(NewPage(Launch(EnterWith(Call(NewScrape))))), ts)]

ScrapePlaywrightEnds ==
    { ReturnTitles(BrowserClose(PlaywrightPath(ts).evaluated)) : ts \in PageTitles }
    \cup { Raise(PlaywrightPath(<<>>)[from], e) :
              from \in FailPositions, e \in Exceptions }

\* lines 202-206, 260-264, one iteration of the for loop, in which nothing
\* else runs: scrape_playwright(url) is called and results[url] becomes the
\* titles it returned, or {'error': str(e)} when it raised an Exception
SeqIterate ==
    /\ pc = "loop" /\ SeqUrl # 0
    /\ \E s \in ScrapePlaywrightEnds :
         /\ ~ResultRaises(s)
         /\ results' = DictSet(results, MemberOf(SeqUrl, s))
         /\ scr' = [scr EXCEPT ![SeqUrl] = CallEnded(s)]
    /\ sched' = [sched EXCEPT ![SeqUrl] = @ + 1]
    /\ yielded' = yielded \cup {SeqUrl}
    /\ UNCHANGED <<prog, urls, workers, pc, queue, fut, wkUrl, outFile,
                   outBefore, writes, writesBefore>>
    /\ UNCHANGED otherVars

\* the same iteration when the call raises what `except Exception` does not
\* catch: main ends with the exception
SeqRaises ==
    /\ pc = "loop" /\ SeqUrl # 0
    /\ \E s \in ScrapePlaywrightEnds :
         /\ ResultRaises(s)
         /\ scr' = [scr EXCEPT ![SeqUrl] = CallEnded(s)]
    /\ sched' = [sched EXCEPT ![SeqUrl] = @ + 1]
    /\ pc' = "aborted"
    /\ UNCHANGED <<prog, urls, workers, queue, fut, wkUrl, results, yielded,
                   outFile, outBefore, writes, writesBefore>>
    /\ UNCHANGED otherVars

\* lines 208-210, 266-267: the file is opened with 'w', results dumped into it
SeqWrite ==
    /\ pc = "loop" /\ LoopDone
    /\ outFile' = JsonObject(results)
    /\ writes' = writes + 1
    /\ pc' = "done"
    /\ UNCHANGED <<prog, urls, workers, queue, fut, sched, scr, wkUrl,
                   results, yielded, outBefore, writesBefore>>
    /\ UNCHANGED otherVars

\* lines 162-163 and 217-218: main returned and its locals are gone, the
\* script goes on to the definitions and the main() call of the next program
NextMain ==
    /\ pc \in {"done", "returned"} /\ prog < 3
    /\ prog' = prog + 1
    /\ pc' = "start"
    /\ urls' = <<>> /\ results' = <<>> /\ yielded' = {}
    /\ fut' = [u \in URLS |-> "none"]
    /\ sched' = [u \in URLS |-> 0]
    /\ scr' = [u \in URLS |-> NewScrape]
    /\ outBefore' = outFile
    /\ writesBefore' = writes
    /\ workers' = 0
    /\ UNCHANGED <<queue, wkUrl, outFile, writes>>
    /\ UNCHANGED otherVars

Next ==
    \/ ExtractUrls
    \/ ExtractRaises
    \/ ExitNoUrls
    \/ PoolValueError
    \/ PoolOpen
    \/ Submit
    \/ \E w \in Threads : WorkerTake(w)
    \/ \E w \in Threads : WEnterWith(w)
    \/ \E w \in Threads : WLaunch(w)
    \/ \E w \in Threads : WNewPage(w)
    \/ \E w \in Threads : WGoto(w)
    \/ \E w \in Threads : WEvaluate(w)
    \/ \E w \in Threads : WClose(w)
    \/ \E w \in Threads : WReturn(w)
    \/ \E w \in Threads : WFail(w)
    \/ Collect
    \/ CollectRaises
    \/ PoolShutdownRaises
    \/ WriteOut
    \/ ReturnNoUrls
    \/ SeqBegin
    \/ SeqIterate
    \/ SeqRaises
    \/ SeqWrite
    \/ NextMain

Spec == Init /\ [][Next]_vars

(***************************************************************************)
(* One scrape call on its own: scrape_profile_with_name                    *)
(* (batch_from_csv.py:51-113) or scrape_playwright (scraper.py:30-76), on  *)
(* a page whose traversal (light DOM and shadow roots, in pre-order) meets *)
(* the h1.ql-display-small elements doc.h1 and the span.ql-title-medium    *)
(* elements doc.spans; each is given by its innerText, a sequence of       *)
(* characters.                                                             *)
(***************************************************************************)
MaxTextLen == 1
MaxSpans == 3

Chars == {" ", "a", "b"}

Texts == UNION { [1..k -> Chars] : k \in 0..MaxTextLen }

Docs == { [h1 |-> h, spans |-> sp] :
            h \in {<<>>, << <<" ">>, <<"a">> >>},
            sp \in UNION { [1..k -> Texts] : k \in 0..MaxSpans } }

RECURSIVE LStrip(_)
LStrip(t) == IF t # <<>> /\ Head(t) = " " THEN LStrip(Tail(t)) ELSE t

RECURSIVE RStrip(_)
RStrip(t) ==
    IF t # <<>> /\ t[Len(t)] = " " THEN RStrip(SubSeq(t, 1, Len(t) - 1)) ELSE t

\* String.prototype.trim and str.strip
Trim(t) == RStrip(LStrip(t))

RECURSIVE NonEmptyTrimmed(_)
\* the texts t = innerText.trim() with `if (t)` true, in order
NonEmptyTrimmed(ts) ==
    IF ts = <<>> THEN <<>>
    ELSE LET t == Trim(Head(ts))
         IN  (IF t = <<>> THEN <<>> ELSE <<t>>) \o NonEmptyTrimmed(Tail(ts))

\* collect(document) of batch_from_csv.py:62-95
CollectNameTitles(d) ==
    LET names == NonEmptyTrimmed(d.h1)
    IN  [name |-> IF names = <<>> THEN <<>> ELSE names[1],
         titles |-> NonEmptyTrimmed(d.spans)]

\* collect(document) of scraper.py:41-65: every matching span's trimmed text
CollectTitles(d) == [i \in DOMAIN d.spans |-> Trim(d.spans[i])]

\* scraper.py:69-73: keep the non-empty stripped values
StripValues(values) == NonEmptyTrimmed(values)

InitScrape ==
    /\ fn \in {"scrape_profile_with_name", "scrape_playwright"}
    /\ doc \in Docs
    /\ scr = [u \in URLS |-> IF u = 1 THEN Call(NewScrape) ELSE NewScrape]
    /\ pc = "scrape" /\ IdleBatch
    /\ IdleUpdate /\ IdleExtract

ScrapeStep(from, next) ==
    /\ scr[1].pos = from
    /\ scr' = [scr EXCEPT ![1] = next]
    /\ UNCHANGED <<batchVars, scrapeVars, updateVars, extractVars>>

SEnterWith == ScrapeStep("try", EnterWith(scr[1]))
SLaunch == ScrapeStep("with", Launch(scr[1]))
SNewPage == ScrapeStep("launched", NewPage(scr[1]))
SGoto == ScrapeStep("page", Goto(scr[1]))

SEvaluateNameTitles ==
    /\ fn = "scrape_profile_with_name"
    /\ ScrapeStep("loaded", Evaluate(scr[1], CollectNameTitles(doc)))

SEvaluateTitles ==
    /\ fn = "scrape_playwright"
    /\ ScrapeStep("loaded", Evaluate(scr[1], StripValues(CollectTitles(doc))))

SClose == ScrapeStep("evaluated", BrowserClose(scr[1]))

SReturnResult ==
    /\ fn = "scrape_profile_with_name"
    /\ ScrapeStep("closed", ReturnResult(scr[1]))

SReturnTitles ==
    /\ fn = "scrape_playwright"
    /\ ScrapeStep("closed", ReturnTitles(scr[1]))

\* a step raises an Exception: the call returns {'error': str(e)}
SReturnError ==
    /\ fn = "scrape_profile_with_name"
    /\ \E e \in Exceptions, from \in FailPositions :
         e.isException /\ ScrapeStep(from, OnException(scr[1], e))

\* a step raises what is no Exception: the call raises it
SRaiseUncaught ==
    /\ fn = "scrape_profile_with_name"
    /\ \E e \in Exceptions, from \in FailPositions :
         ~e.isException /\ ScrapeStep(from, OnException(scr[1], e))

SRaise ==
    /\ fn = "scrape_playwright"
    /\ \E e \in Exceptions, from \in FailPositions :
         ScrapeStep(from, Raise(scr[1], e))

NextScrape ==
    \/ SEnterWith
    \/ SLaunch
    \/ SNewPage
    \/ SGoto
    \/ SEvaluateNameTitles
    \/ SEvaluateTitles
    \/ SClose
    \/ SReturnResult
    \/ SReturnTitles
    \/ SReturnError
    \/ SRaiseUncaught
    \/ SRaise

SpecScrape == InitScrape /\ [][NextScrape]_vars

(***************************************************************************)
(* update_single.py: update_profile(url) re-scrapes one profile and        *)
(* splices the result into data/results.json.  The file is                 *)
(* [readable, data]: when it is missing or not valid JSON, json.load       *)
(* raises and the bare except makes the loaded list empty.                 *)
(***************************************************************************)
\* scraper.scrape_profile is imported by update_single.py and is not part of
\* the sources; per the specification's ScrapeResult it returns a record
\* for the URL asked for: url, name, titles, and error after a failure.
ScrapeProfile(url) ==
    { [url |-> url, name |-> "Jane Doe", titles |-> <<"Badge A">>],
      [url |-> url, name |-> "Jane Doe", titles |-> <<"Badge B">>],
      [url |-> url, name |-> "", titles |-> <<>>, error |-> "Timeout"] }

\* try: json.load(f)  except: results = []
LoadResults(file) == IF file.readable THEN file.data ELSE <<>>

\* profile.get('url')
GetUrl(profile) == IF "url" \in DOMAIN profile THEN profile.url ELSE 0

\* Mutant of FindProfile: the loop looks the URL up under another key.
FindProfileWrongKey(rs, url) ==
    IF \E i \in DOMAIN rs : "URL" \in DOMAIN rs[i] /\ rs[i].URL = url
    THEN Min({i \in DOMAIN rs : "URL" \in DOMAIN rs[i] /\ rs[i].URL = url})
    ELSE 0

\* the index at which the loop of lines 30-35 breaks, 0 when it ends unbroken
FindProfile(rs, url) ==
    IF \E i \in DOMAIN rs : GetUrl(rs[i]) = url
    THEN Min({i \in DOMAIN rs : GetUrl(rs[i]) = url}) ELSE 0

\* Mutant of MergeProfile: the result is always appended.
MergeProfileAppend(rs, url, data) == Append(rs, data)

\* lines 28-39
MergeProfile(rs, url, data) ==
    IF FindProfile(rs, url) # 0
    THEN [rs EXCEPT ![FindProfile(rs, url)] = data]
    ELSE Append(rs, data)

NoUpdate == [url |-> 0, ok |-> FALSE, data |-> NoValue]

InitUpdate ==
    /\ store \in { [readable |-> FALSE, data |-> <<>>],
                   [readable |-> TRUE,  data |-> <<>>] }
    /\ storeBefore = store
    /\ upd = NoUpdate
    /\ pc = "update" /\ IdleBatch
    /\ scr = [u \in URLS |-> NewScrape]
    /\ IdleScrape /\ IdleExtract

\* lines 11-15: the scrape gave nothing, update_profile returns False
UpdateNothingScraped ==
    /\ \E url \in URLS : upd' = [url |-> url, ok |-> FALSE, data |-> NoValue]
    /\ storeBefore' = store
    /\ UNCHANGED <<store, batchVars, scr, scrapeVars, extractVars>>

\* lines 11-46: scrape, load, merge, save, return True
UpdateProfile ==
    /\ \E url \in URLS : \E data \in ScrapeProfile(url) :
         /\ upd' = [url |-> url, ok |-> TRUE, data |-> data]
         /\ store' = [readable |-> TRUE,
                      data |-> MergeProfile(LoadResults(store), url, data)]
    /\ storeBefore' = store
    /\ UNCHANGED <<batchVars, scr, scrapeVars, extractVars>>

NextUpdate ==
    \/ UpdateNothingScraped
    \/ UpdateProfile

SpecUpdate == InitUpdate /\ [][NextUpdate]_vars

(***************************************************************************)
(* extract_urls_from_csv, in the three versions batch_from_csv.py holds:   *)
(*   1  lines 20-48    csv cells, regex search, sorted set                 *)
(*   2  lines 179-188  regex findall over the whole text, sorted set       *)
(*   3  lines 236-253  csv cells holding /public_profiles/, first-seen     *)
(* The file's text is a sequence of tokens, each standing for the          *)
(* characters the code tells apart:                                        *)
(*   "H"  http://             "P"  /public_profiles/                       *)
(*   "a"  a hexadecimal digit "?"  "#"  " "  the characters themselves     *)
(*   ","  the comma separating two cells of a row                          *)
(* The text holds no quote and no line break, so csv.reader yields the     *)
(* cells between the commas.                                               *)
(***************************************************************************)
MaxCsvLen == 5

Tokens == {"H", "P", "a", "?", "#", " ", ","}

CsvTexts == UNION { [1..k -> Tokens] : k \in 0..MaxCsvLen }

\* [^\s"'>] : every token but the blank
NonDelim(t) == t # " "

RECURSIVE SplitCells(_)
\* csv.reader: the cells of the row
SplitCells(text) ==
    IF \A i \in DOMAIN text : text[i] # "," THEN <<text>>
    ELSE LET k == Min({i \in DOMAIN text : text[i] = ","})
         IN  <<SubSeq(text, 1, k - 1)>> \o SplitCells(SubSeq(text, k + 1, Len(text)))

\* s.split(c)[0]
BeforeFirst(t, c) ==
    IF \A i \in DOMAIN t : t[i] # c THEN t
    ELSE SubSeq(t, 1, Min({i \in DOMAIN t : t[i] = c}) - 1)

\* the last index of the maximal run of non-blank tokens starting at i
RunEnd(t, i) ==
    IF \A k \in i..Len(t) : NonDelim(t[k]) THEN Len(t)
    ELSE Min({k \in i..Len(t) : ~NonDelim(t[k])}) - 1

\* the starts at which (https?://[^\s"'>]+/public_profiles/[^\s"'>]+) matches
SearchStarts(t) ==
    { i \in DOMAIN t :
        /\ t[i] = "H"
        /\ \E j \in (i + 2)..(RunEnd(t, i) - 1) : t[j] = "P" }

\* pattern.search(cell).group(1): from the leftmost start, both greedy
\* classes run to the end of the run of non-blank characters
SearchMatch(t) ==
    SubSeq(t, Min(SearchStarts(t)), RunEnd(t, Min(SearchStarts(t))))

\* lines 30-47: the URL a cell adds to the set, as a set of none or one
CellUrls1(cell) ==
    IF cell = <<>> THEN {}
    ELSE IF SearchStarts(cell) # {}
    THEN {BeforeFirst(BeforeFirst(SearchMatch(cell), "?"), "#")}
    ELSE IF "P" \in Range(cell) /\ Trim(cell) # <<>> /\ Trim(cell)[1] = "H"
    THEN {BeforeFirst(BeforeFirst(Trim(cell), "?"), "#")}
    ELSE {}

\* rank of a token's first character in code point order
Rank(t) ==
    CASE t = " " -> 1 [] t = "#" -> 2 [] t = "," -> 3 [] t = "P" -> 4
      [] t = "?" -> 5 [] t = "a" -> 6 [] t = "H" -> 7

RECURSIVE StrLess(_, _)
\* s < t for two strings
StrLess(s, t) ==
    IF t = <<>> THEN FALSE
    ELSE IF s = <<>> THEN TRUE
    ELSE IF Head(s) # Head(t) THEN Rank(Head(s)) < Rank(Head(t))
    ELSE StrLess(Tail(s), Tail(t))

RECURSIVE SortedStrings(_)
\* sorted(urls) of a set of strings
SortedStrings(S) ==
    IF S = {} THEN <<>>
    ELSE LET m == CHOOSE x \in S : \A y \in S \ {x} : StrLess(x, y)
         IN  <<m>> \o SortedStrings(S \ {m})

\* version 1
ExtractUrls1(text) ==
    LET cells == SplitCells(text)
    IN  SortedStrings(UNION { CellUrls1(cells[i]) : i \in DOMAIN cells })

\* the starts at which https?://[^\"]*/public_profiles/[0-9a-fA-F-]+ matches, and
\* the positions of the /public_profiles/ a match from there can end at
HexProfiles(t, i) == { j \in (i + 1)..(Len(t) - 1) : t[j] = "P" /\ t[j + 1] = "a" }

FindStarts(t) == { i \in DOMAIN t : t[i] = "H" /\ HexProfiles(t, i) # {} }

\* the last index of the run of hexadecimal digits starting at i
HexEnd(t, i) ==
    IF \A k \in i..Len(t) : t[k] = "a" THEN Len(t)
    ELSE Min({k \in i..Len(t) : t[k] # "a"}) - 1

Max(S) == CHOOSE x \in S : \A y \in S : x >= y

\* pattern.findall(text): [^\"]* is greedy, so the leftmost match runs to the
\* last /public_profiles/ followed by a digit, and nothing after it matches
FindAll(t) ==
    IF FindStarts(t) = {} THEN {}
    ELSE LET i == Min(FindStarts(t))
             j == Max(HexProfiles(t, i))
         IN  {SubSeq(t, i, HexEnd(t, j + 1))}

\* version 2
ExtractUrls2(text) ==
    SortedStrings({ Trim(BeforeFirst(m, "?")) : m \in FindAll(text) })

RECURSIVE CellUrls3(_)
\* lines 240-245: the list of normalised cells, in order
CellUrls3(cells) ==
    IF cells = <<>> THEN <<>>
    ELSE (IF "P" \in Range(Head(cells))
          THEN <<BeforeFirst(Trim(Head(cells)), "?")>> ELSE <<>>)
         \o CellUrls3(Tail(cells))

\* version 3
ExtractUrls3(text) == Dedup(CellUrls3(SplitCells(text)))

InitExtract ==
    /\ variant \in {1, 2, 3}
    /\ csv \in { [exists |-> TRUE, text |-> t] : t \in CsvTexts }
               \cup { [exists |-> FALSE, text |-> <<>>] }
    /\ extracted = [state |-> "none", urls |-> <<>>]
    /\ pc = "extract" /\ IdleBatch
    /\ scr = [u \in URLS |-> NewScrape]
    /\ IdleScrape /\ IdleUpdate

ExtractDone(res) ==
    /\ extracted.state = "none"
    /\ extracted' = res
    /\ UNCHANGED <<csv, variant, batchVars, scr, scrapeVars, updateVars>>

\* lines 22-24: version 1 returns [] when the file does not exist
ExtractMissing1 ==
    /\ variant = 1 /\ ~csv.exists
    /\ ExtractDone([state |-> "returned", urls |-> <<>>])

\* versions 2 and 3 open the file at once: FileNotFoundError
ExtractMissingRaises ==
    /\ variant \in {2, 3} /\ ~csv.exists
    /\ ExtractDone([state |-> "raised", urls |-> <<>>])

Extract1 ==
    /\ variant = 1 /\ csv.exists
    /\ ExtractDone([state |-> "returned", urls |-> ExtractUrls1(csv.text)])

Extract2 ==
    /\ variant = 2 /\ csv.exists
    /\ ExtractDone([state |-> "returned", urls |-> ExtractUrls2(csv.text)])

Extract3 ==
    /\ variant = 3 /\ csv.exists
    /\ ExtractDone([state |-> "returned", urls |-> ExtractUrls3(csv.text)])

NextExtract ==
    \/ ExtractMissing1
    \/ ExtractMissingRaises
    \/ Extract1
    \/ Extract2
    \/ Extract3

SpecExtract == InitExtract /\ [][NextExtract]_vars

(***************************************************************************)
(* Properties of the batch runs, checked under Spec.                       *)
(***************************************************************************)
EntriesFor(rs, u) == {i \in DOMAIN rs : KeyOf(rs[i]) = u}

\* the running main has ended: it returned after writing, or an exception it
\* did not catch went through it
MainEnded == pc \in {"done", "aborted"}

\* C1 (as claimed): no URL is scheduled more than once, and when the batch
\* run of the main of lines 116-159 has ended, whatever the outcome of each
\* scrape was (a result, a structured error, a raised exception), the
\* accumulated results hold exactly one entry for each input URL and no
\* other entry.
C1_NeverDropsUrl ==
    /\ \A u \in URLS : sched[u] <= 1
    /\ (prog = 1 /\ MainEnded) =>
         /\ Len(results) = Len(urls)
         /\ \A u \in Range(urls) :
              sched[u] = 1 /\ Cardinality(EntriesFor(results, u)) = 1
         /\ \A i \in DOMAIN results : KeyOf(results[i]) \in Range(urls)

\* What holds of C1, in each of the three programs: a run in which every
\* scrape returned, or raised an Exception, ends with one entry per input
\* URL, and writes them all.
NeverDropsUrlWhenDone ==
    /\ \A u \in URLS : sched[u] <= 1
    /\ pc = "done" =>
         /\ Len(results) = Len(urls)
         /\ \A u \in Range(urls) :
              sched[u] = 1 /\ Cardinality(EntriesFor(results, u)) = 1
         /\ \A i \in DOMAIN results : KeyOf(results[i]) \in Range(urls)
         /\ outFile.items = results

\* C3 (as claimed): after the batch run of the main of lines 116-159 has
\* written its output file, every URL that had an entry in that file before
\* the run still has one, and the entries of URLs the run did not scrape are
\* unchanged.
C3_NoEntryRemoved ==
    (prog = 1 /\ pc = "done") =>
        \A i \in DOMAIN outBefore.items :
            \E j \in DOMAIN outFile.items :
                /\ KeyOf(outFile.items[j]) = KeyOf(outBefore.items[i])
                /\ KeyOf(outBefore.items[i]) \notin Range(urls) =>
                       outFile.items[j] = outBefore.items[i]

\* C5 (as claimed): a call of scrape_profile_with_name never raises, and the
\* record main stores for a URL whose scrape failed has a non-empty error, an
\* empty name and no titles.
C5_FailureRecorded ==
    prog = 1 =>
        /\ \A u \in URLS : scr[u].pos # "raised"
        /\ \A i \in DOMAIN results :
             "error" \in DOMAIN scr[results[i].url].ret =>
                /\ "error" \in DOMAIN results[i]
                /\ results[i].error # ""
                /\ results[i].name = ""
                /\ results[i].titles = <<>>

\* the number of scrapes the running main allows at a time: --workers for the
\* pool of prog 1, one for the loops of progs 2 and 3
MaxInFlight == IF prog = 1 THEN workers ELSE 1

\* C7: at every moment at most `workers` scrapes are in flight (one in the
\* programs without a pool), and every scrape in flight in the pool is run by
\* exactly one pool thread, which runs no other.
C7_BoundedParallelism ==
    /\ Cardinality(Active) <= MaxInFlight
    /\ prog = 1 => Active = InFlight
    /\ InFlight = {wkUrl[w] : w \in Threads} \ {0}
    /\ \A w1, w2 \in Threads :
         (wkUrl[w1] # 0 /\ wkUrl[w1] = wkUrl[w2]) => w1 = w2

\* the pool is saturated while a submitted URL still waits
C7_Witness ==
    /\ prog = 1 /\ workers >= 1 /\ workers < Len(urls)
    /\ Cardinality(Active) = workers
    /\ queue # <<>>

\* the number of times the running main has written the output file
WritesOfMain == writes - writesBefore

\* C10: in every interleaving of a batch run (one call of main) the output
\* file is written at most once, and only after every scheduled scrape has
\* ended and its result has been accumulated, with no scrape in flight and
\* nothing queued; a run that completed has written it exactly once.
C10_SingleWriterAtEnd ==
    /\ WritesOfMain <= 1
    /\ WritesOfMain = 0 => outFile = outBefore
    /\ WritesOfMain = 1 =>
         /\ Active = {} /\ InFlight = {} /\ queue = <<>>
         /\ \A u \in Range(urls) :
              /\ scr[u].pos \in {"returned", "raised"}
              /\ prog = 1 => fut[u] = "finished"
              /\ EntriesFor(results, u) # {}
         /\ outFile.items = results
    /\ pc = "done" => WritesOfMain = 1

\* the pool's run, with scrapes that overlapped in time and ended in another
\* order than they were submitted in, has written its file
C10_Witness ==
    /\ prog = 1 /\ WritesOfMain = 1 /\ pc = "done" /\ workers >= 2
    /\ Len(results) = MaxUrls
    /\ results[1].url # urls[1]

\* Every write is made by a main whose loop is exhausted, with no scrape in
\* flight and nothing queued; it stores the accumulated results and ends
\* that main.
WriteOnlyAtEnd ==
    [][writes' # writes =>
         /\ writes' = writes + 1
         /\ Active = {} /\ InFlight = {} /\ queue = <<>>
         /\ LoopDone
         /\ \A u \in Range(urls) : EntriesFor(results, u) # {}
         /\ outFile'.items = results
         /\ pc # "done" /\ pc' = "done"]_vars

\* The script run without arguments, when it reaches the end of its last
\* program, has written the file once in prog 1, once in prog 3, and once in
\* prog 2 when that found a URL; the file is then the object prog 3 wrote.
ScriptWritesOncePerMain ==
    (prog = 3 /\ pc = "done") =>
        /\ argv = <<>>
        /\ writes \in {2, 3}
        /\ outFile = JsonObject(results)

(***************************************************************************)
(* Properties of one scrape call, checked under SpecScrape.                *)
(***************************************************************************)
Ended == scr[1].pos \in {"returned", "raised"}

\* C6: when a scrape has returned or raised, on whatever path, the browser
\* it launched is no longer open and the driver it started is stopped.
C6_BrowserReleased ==
    Ended => scr[1].browser # "open" /\ ~scr[1].pw

\* a scrape that failed after launching its browser, before browser.close()
C6_Witness ==
    /\ Ended /\ scr[1].browser = "killed"
    /\ fn = "scrape_profile_with_name" /\ "error" \in DOMAIN scr[1].ret

\* the titles a finished scrape call returned
ReturnedTitles ==
    IF fn = "scrape_playwright" THEN scr[1].ret ELSE scr[1].ret.titles

\* the title texts the traversal collected for the call
CollectedTitles ==
    IF fn = "scrape_playwright" THEN StripValues(CollectTitles(doc))
    ELSE CollectNameTitles(doc).titles

NoTextTwice(ts) == \A i, j \in DOMAIN ts : ts[i] = ts[j] => i = j

FirstIndex(ts, t) == Min({i \in DOMAIN ts : ts[i] = t})

DistinctInFirstSeenOrder(out, col) ==
    /\ NoTextTwice(out)
    /\ Range(out) = Range(col)
    /\ \A i, j \in DOMAIN out :
         i < j => FirstIndex(col, out[i]) < FirstIndex(col, out[j])

ReturnedOk ==
    /\ scr[1].pos = "returned"
    /\ fn = "scrape_profile_with_name" => "error" \notin DOMAIN scr[1].ret

\* C9 (as claimed): the titles any scrape returns hold no text twice, hold
\* exactly the distinct collected texts in first-seen order, and are left
\* unchanged by deduplicating them again.
C9_TitlesDeduplicated ==
    ReturnedOk =>
        /\ DistinctInFirstSeenOrder(ReturnedTitles, CollectedTitles)
        /\ Dedup(ReturnedTitles) = ReturnedTitles

\* The same property for scrape_profile_with_name alone, which holds.
DedupWithName ==
    (ReturnedOk /\ fn = "scrape_profile_with_name") =>
        /\ DistinctInFirstSeenOrder(ReturnedTitles, CollectedTitles)
        /\ Dedup(ReturnedTitles) = ReturnedTitles

(***************************************************************************)
(* Properties of update_profile, checked under SpecUpdate.                 *)
(***************************************************************************)
StoredBefore == LoadResults(storeBefore)

\* C2: when the store already held an entry for the URL, the update leaves
\* exactly one entry for it, which is the incoming result (its titles are the
\* new ones, the old entry is gone), and the store has not grown.
C2_MergeOverwrite ==
    (upd.ok /\ FindProfile(StoredBefore, upd.url) # 0) =>
        /\ Len(store.data) <= Len(StoredBefore)
        /\ \E i \in DOMAIN store.data :
             /\ EntriesFor(store.data, upd.url) = {i}
             /\ store.data[i] = upd.data
             /\ store.data[i].titles = upd.data.titles

\* an entry with other titles has been overwritten in a store of several
C2_Witness ==
    /\ upd.ok /\ FindProfile(StoredBefore, upd.url) # 0
    /\ Len(StoredBefore) >= 2
    /\ StoredBefore[FindProfile(StoredBefore, upd.url)].titles # upd.data.titles

\* C4: merging the result just merged once more leaves the store as it is,
\* and so does merging any result twice into the store reached.
C4_MergeIdempotent ==
    /\ upd.ok => MergeProfile(store.data, upd.url, upd.data) = store.data
    /\ \A url \in URLS : \A data \in ScrapeProfile(url) :
         LET once == MergeProfile(LoadResults(store), url, data)
         IN  MergeProfile(once, url, data) = once

\* an update has changed a store that was not empty
C4_Witness ==
    /\ upd.ok /\ StoredBefore # <<>> /\ store.data # StoredBefore

\* The single-record half of C3, which holds: update_profile removes no
\* entry and changes only the entry of the URL it was given.
UpdateKeepsEntries ==
    /\ ~upd.ok => store = storeBefore
    /\ upd.ok =>
         \A i \in DOMAIN StoredBefore :
            \E j \in DOMAIN store.data :
                /\ store.data[j].url = StoredBefore[i].url
                /\ StoredBefore[i].url # upd.url => store.data[j] = StoredBefore[i]

(***************************************************************************)
(* Properties of extract_urls_from_csv, checked under SpecExtract.         *)
(***************************************************************************)
NoQueryNoFragment(us) ==
    \A i \in DOMAIN us : "?" \notin Range(us[i]) /\ "#" \notin Range(us[i])

\* C8 (as claimed): whatever the table, the list returned holds no URL twice
\* and no URL with a '?' or a '#' in it.
C8_ExtractNormalised ==
    extracted.state = "returned" =>
        NoTextTwice(extracted.urls) /\ NoQueryNoFragment(extracted.urls)

\* The same property for version 1 alone, which holds.
ExtractNormalised1 ==
    (extracted.state = "returned" /\ variant = 1) =>
        NoTextTwice(extracted.urls) /\ NoQueryNoFragment(extracted.urls)

\* What every version guarantees: no URL twice and no '?'.
ExtractNoDuplicateNoQuery ==
    extracted.state = "returned" =>
        /\ NoTextTwice(extracted.urls)
        /\ \A i \in DOMAIN extracted.urls : "?" \notin Range(extracted.urls[i])

\* Whenever version 1 finds a URL in a file, version 3 finds one in it too:
\* the cell version 1 took it from holds /public_profiles/.
SameFileGivesProg3Urls ==
    (csv.exists /\ ExtractUrls1(csv.text) # <<>>) => ExtractUrls3(csv.text) # <<>>

====
